---- MODULE Spec2Model ----
(***************************************************************************)
(* A model of the rsudoku puzzle engine (src/src/puzzle.rs) and of the     *)
(* calls the interactive layer (src/src/app.rs) makes into it.             *)
(*                                                                         *)
(* Puzzle::new is modelled step by step: the recursion of fill_grid is an  *)
(* explicit stack of frames, remove_numbers is one step.  After that the   *)
(* three mutation entry points insert_number, clear_cell and reset are one *)
(* action each.  The board has the repository's size (9 x 9, 3 x 3 blocks) *)
(* and its four clue counts.  What is bounded is the environment: the      *)
(* random source (a small set of seeds) and the cells the player edits.    *)
(***************************************************************************)
EXTENDS Integers, Sequences, FiniteSets, TLC

VARIABLES
    level,       \* the Difficulty handed to Puzzle::new (App.level)
    grid,        \* Puzzle.grid: [row][col] -> Cell
    clues,       \* Puzzle.clues
    is_solved,   \* Puzzle.is_solved
    rng,         \* state of the process-wide random source
    pc,          \* position inside Puzzle::new / fill_grid, or "play"
    stack,       \* active fill_grid calls that are inside their candidate loop
    result,      \* return value of the fill_grid call that returned last
    failed,      \* history: the fill_grid call that returned false last
    solution,    \* history: the digits of the full grid fill_grid produced
    constructed, \* history: the grid Puzzle::new returned
    lastOp,      \* history: the last call, what its target cell was, is_solved before it
    written,     \* history: cells insert_number wrote a digit 1..9 to, not cleared by clear_cell since
    onPath,      \* history: every call since new inserted a solution digit into an empty cell
    player,      \* the cells the player works on (bounds the environment)
    selected_row,  \* App.selected_row
    selected_col,  \* App.selected_col
    exit,          \* App.exit
    keys,          \* number of key events handled so far; the logical clock
    timer,         \* App.timer: the clock when the game was started
    time_to_solve, \* App.time_to_solve
    issued,        \* history: the arguments of the last insert_number the app issued
    script,        \* the user's solving plan (bounds the environment): whether there is one, and the key events pressed from it
    text,        \* the token handed to Difficulty::from_str
    parsed,      \* what from_str returned
    applied      \* the last application of validate_sudoku or is_safe and its value

appVars == <<selected_row, selected_col, exit, keys, timer, time_to_solve, issued,
             script>>
fnVars == <<text, parsed, applied>>

vars == <<level, grid, clues, is_solved, rng, pc, stack, result, failed,
          solution, constructed, lastOp, written, onPath, player,
          selected_row, selected_col, exit, keys, timer, time_to_solve, issued,
          script, text, parsed, applied>>

----------------------------------------------------------------------------
(* Program constants *)

SIZE == 9
SUBGRID_SIZE == 3
EASY_CLUES == 36
MEDIUM_CLUES == 34
HARD_CLUES == 32
EXPERT_CLUES == 30

(* Bounds of the environment *)

\* seeds of the random source: 0 .. MaxSeed
MaxSeed == 1
\* seeds of the random source when the generator is checked on its own:
\* 0 .. MaxGenSeed
MaxGenSeed == 7
\* number of cells that differ from the base grid when the checker's
\* functions are applied on their own
MaxEdits == 2
\* number of key events the interactive layer handles, those of the user's
\* solving plan not counted
MaxKeys == 3
\* number of blank cells the player edits freely (the others, the scripted
\* cells, are filled with their solution digit, from either end of their
\* row-major order)
MaxOpen == 1

----------------------------------------------------------------------------
(* Data model *)

Idx == 0 .. SIZE - 1
Positions == Idx \X Idx

Difficulty == {"Easy", "Medium", "Hard", "Expert"}

\* `difficulty as usize`
DifficultyClues(d) ==
    CASE d = "Easy" -> EASY_CLUES
      [] d = "Medium" -> MEDIUM_CLUES
      [] d = "Hard" -> HARD_CLUES
      [] d = "Expert" -> EXPERT_CLUES

Cell(value, is_clue) ==
    [value |-> value, is_clue |-> is_clue, possible_wrong |-> FALSE]

\* the digits the interactive layer hands to insert_number for the keys '0' .. '9'
KeyDigits == 0 .. 9

Min(S) == CHOOSE x \in S : \A y \in S : x <= y
Max(S) == CHOOSE x \in S : \A y \in S : x >= y

\* row-major index of a cell and its inverse
CellIndex(row, col) == row * SIZE + col
CellAt(i) == <<i \div SIZE, i % SIZE>>

----------------------------------------------------------------------------
(* Constraint checker *)

is_in_row(g, row, num) == \E c \in Idx : g[row][c].value = num

\* mutant: the scan of the column starts one row late
is_in_col_SkipsFirstRow(g, col, num) == \E r \in Idx \ {0} : g[r][col].value = num

is_in_col(g, col, num) == \E r \in Idx : g[r][col].value = num

is_in_subgrid(g, start_row, start_col, num) ==
    \E i \in 0 .. SUBGRID_SIZE - 1 : \E j \in 0 .. SUBGRID_SIZE - 1 :
        g[start_row + i][start_col + j].value = num

\* mutant: the column is not checked
is_safe_NoColumn(g, row, col, num) ==
    /\ ~is_in_row(g, row, num)
    /\ ~is_in_subgrid(g, row - (row % SUBGRID_SIZE),
                     col - (col % SUBGRID_SIZE), num)

\* mutant: the subgrid is not checked
is_safe_NoSubgrid(g, row, col, num) ==
    /\ ~is_in_row(g, row, num)
    /\ ~is_in_col(g, col, num)

is_safe(g, row, col, num) ==
    /\ ~is_in_row(g, row, num)
    /\ ~is_in_col(g, col, num)
    /\ ~is_in_subgrid(g, row - (row % SUBGRID_SIZE),
                     col - (col % SUBGRID_SIZE), num)

\* the loop of is_valid_set from element i on, `set` being the HashSet so far
RECURSIVE is_valid_set_from(_, _, _)
is_valid_set_from(nums, i, set) ==
    IF i > Len(nums) THEN TRUE
    ELSE IF nums[i] # 0 /\ nums[i] \in set THEN FALSE
    ELSE is_valid_set_from(nums, i + 1,
                           IF nums[i] # 0 THEN set \cup {nums[i]} ELSE set)

is_valid_set(nums) == is_valid_set_from(nums, 1, {})

\* mutant: the loop over the subgrids is missing
validate_sudoku_NoSubgrids(g) ==
    /\ \A row \in Idx :
          is_valid_set([k \in 1 .. SIZE |-> g[row][k - 1].value])
    /\ \A col \in Idx :
          is_valid_set([k \in 1 .. SIZE |-> g[k - 1][col].value])

validate_sudoku(g) ==
    /\ \A row \in Idx :
          is_valid_set([k \in 1 .. SIZE |-> g[row][k - 1].value])
    /\ \A col \in Idx :
          is_valid_set([k \in 1 .. SIZE |-> g[k - 1][col].value])
    /\ \A br \in 0 .. SUBGRID_SIZE - 1 : \A bc \in 0 .. SUBGRID_SIZE - 1 :
          is_valid_set([k \in 1 .. SUBGRID_SIZE * SUBGRID_SIZE |->
              g[br * SUBGRID_SIZE + ((k - 1) \div SUBGRID_SIZE)]
               [bc * SUBGRID_SIZE + ((k - 1) % SUBGRID_SIZE)].value])

\* Puzzle::validate
validate == validate_sudoku(grid)

\* mutant: the scan for an empty cell is missing
check_if_solved_NoEmptyScan(g) == validate_sudoku(g)

\* Puzzle::check_if_solved on grid g
check_if_solved(g) ==
    IF \E row \in Idx : \E col \in Idx : g[row][col].value = 0
    THEN FALSE
    ELSE validate_sudoku(g)

----------------------------------------------------------------------------
(* The random source and SliceRandom::shuffle.  The generator belongs to the *)
(* rand crate; here it is a linear congruential stream, and the seed it     *)
(* starts from is the nondeterminism of the model.                          *)

\* one draw advances the generator
NextRng(r) == (r * 75 + 74) % 65537

\* a uniform index below ubound, from the generator's state after the draw
gen_index(r, ubound) == r % ubound

\* Fisher-Yates as in rand: for i in (1..len).rev() { swap(i, gen_index(i + 1)) }
\* (positions are 1-based here).  One turn of the loop, on the sequence and
\* the generator st, for position i:
shuffle_step(st, i) ==
    LET r2 == NextRng(st.rng)
        j == gen_index(r2, i) + 1
    IN [seq |-> [st.seq EXCEPT ![i] = st.seq[j], ![j] = st.seq[i]], rng |-> r2]

\* the turns for the positions hi, hi - 1, ..., lo in this order.  The range
\* is halved, and the state after the upper half is a value before the lower
\* half starts, so that the evaluation stays shallow and does nothing twice.
RECURSIVE shuffle_range(_, _, _)
shuffle_range(st, lo, hi) ==
    IF hi < lo THEN st
    ELSE IF lo = hi THEN shuffle_step(st, hi)
    ELSE CHOOSE out \in
             {shuffle_range(upper, lo, (lo + hi) \div 2) :
                 upper \in {shuffle_range(st, ((lo + hi) \div 2) + 1, hi)}} :
             TRUE

shuffle(s, r) == shuffle_range([seq |-> s, rng |-> r], 2, Len(s))

----------------------------------------------------------------------------
(* Puzzle::new *)

EmptyIndexes(g) ==
    {i \in 0 .. SIZE * SIZE - 1 : g[CellAt(i)[1]][CellAt(i)[2]].value = 0}

SetValue(g, row, col, num) == [g EXCEPT ![row][col].value = num]

\* no call has been made yet
NoCall == [name |-> "none"]

\* App::new, the fields next to the puzzle
AppFields ==
    /\ selected_row = 0
    /\ selected_col = 0
    /\ exit = FALSE
    /\ keys = 0
    /\ timer = 0
    /\ time_to_solve = 0
    /\ issued = NoCall

\* App::new, and a user who follows no plan
AppInit ==
    /\ AppFields
    /\ script = [on |-> FALSE, keys |-> 0]

\* no pure function is under test
FnInit ==
    /\ text = <<>>
    /\ parsed = NoCall
    /\ applied = NoCall

Init ==
    /\ grid = [r \in Idx |-> [c \in Idx |-> Cell(0, TRUE)]]
    /\ level \in Difficulty
    /\ clues = DifficultyClues(level)
    /\ is_solved = FALSE
    /\ rng \in 0 .. MaxSeed
    /\ pc = "call"
    /\ stack = <<>>
    /\ result = FALSE
    /\ failed = NoCall
    /\ solution = [r \in Idx |-> [c \in Idx |-> 0]]
    /\ constructed = [r \in Idx |-> [c \in Idx |-> Cell(0, TRUE)]]
    /\ lastOp = [name |-> "none", target |-> "none", solved |-> FALSE]
    /\ written = {}
    /\ onPath = FALSE
    /\ player = [open |-> {}, scripted |-> {}, clue |-> {}]
    /\ AppInit
    /\ FnInit

\* fill_grid is entered: scan for the first empty cell; none: return true;
\* otherwise shuffle the candidates and enter the loop over them
FillGridCall ==
    /\ pc = "call"
    /\ IF EmptyIndexes(grid) = {}
       THEN /\ result' = TRUE
            /\ pc' = "ret"
            /\ UNCHANGED <<stack, rng>>
       ELSE LET at == CellAt(Min(EmptyIndexes(grid)))
                sh == shuffle([k \in 1 .. 9 |-> k], rng)
            IN /\ stack' = Append(stack, [row |-> at[1], col |-> at[2],
                                          numbers |-> sh.seq, idx |-> 1,
                                          entry |-> grid, placed |-> 0])
               /\ rng' = sh.rng
               /\ pc' = "loop"
               /\ UNCHANGED result
    /\ UNCHANGED <<level, grid, clues, is_solved, failed, solution, constructed,
                   lastOp, written, onPath, player, appVars, fnVars>>

\* mutant: the call gives up at the first candidate that is not safe
FillGridLoop_GivesUp ==
    /\ pc = "loop"
    /\ LET f == stack[Len(stack)]
           safe == {k \in {f.idx} \cap (1 .. Len(f.numbers)) :
                       is_safe(grid, f.row, f.col, f.numbers[k])}
       IN IF safe # {}
          THEN /\ grid' = SetValue(grid, f.row, f.col, f.numbers[Min(safe)])
               /\ stack' = [stack EXCEPT ![Len(stack)].placed = @ + 1]
               /\ pc' = "call"
               /\ UNCHANGED <<result, failed>>
          ELSE /\ stack' = SubSeq(stack, 1, Len(stack) - 1)
               /\ result' = FALSE
               /\ failed' = [name |-> "fill_grid", entry |-> f.entry,
                             placed |-> f.placed]
               /\ pc' = "ret"
               /\ UNCHANGED grid
    /\ UNCHANGED <<level, clues, is_solved, rng, solution, constructed, lastOp,
                   written, onPath, player, appVars, fnVars>>

\* the loop over the candidates, up to the next safe one: place it and
\* recurse, or, the candidates exhausted, return false
FillGridLoop ==
    /\ pc = "loop"
    /\ LET f == stack[Len(stack)]
           safe == {k \in f.idx .. Len(f.numbers) :
                       is_safe(grid, f.row, f.col, f.numbers[k])}
       IN IF safe # {}
          THEN /\ grid' = SetValue(grid, f.row, f.col, f.numbers[Min(safe)])
               /\ stack' = [stack EXCEPT ![Len(stack)].idx = Min(safe),
                                          ![Len(stack)].placed = @ + 1]
               /\ pc' = "call"
               /\ UNCHANGED <<result, failed>>
          ELSE /\ stack' = SubSeq(stack, 1, Len(stack) - 1)
               /\ result' = FALSE
               /\ failed' = [name |-> "fill_grid", entry |-> f.entry,
                             placed |-> f.placed]
               /\ pc' = "ret"
               /\ UNCHANGED grid
    /\ UNCHANGED <<level, clues, is_solved, rng, solution, constructed, lastOp,
                   written, onPath, player, appVars, fnVars>>

\* the recursive call returned true: the caller returns true at once
FillGridPropagate ==
    /\ pc = "ret"
    /\ stack # <<>>
    /\ result = TRUE
    /\ stack' = SubSeq(stack, 1, Len(stack) - 1)
    /\ UNCHANGED <<level, grid, clues, is_solved, rng, pc, result, failed,
                   solution, constructed, lastOp, written, onPath, player,
                   appVars, fnVars>>

\* mutant: the cell is not reset before the next candidate is tried
FillGridUndo_NoReset ==
    /\ pc = "ret"
    /\ stack # <<>>
    /\ result = FALSE
    /\ stack' = [stack EXCEPT ![Len(stack)].idx = @ + 1]
    /\ pc' = "loop"
    /\ UNCHANGED <<level, grid, clues, is_solved, rng, result, failed, solution,
                   constructed, lastOp, written, onPath, player, appVars, fnVars>>

\* the recursive call returned false: reset the cell, go on with the next candidate
FillGridUndo ==
    /\ pc = "ret"
    /\ stack # <<>>
    /\ result = FALSE
    /\ LET f == stack[Len(stack)]
       IN /\ grid' = SetValue(grid, f.row, f.col, 0)
          /\ stack' = [stack EXCEPT ![Len(stack)].idx = f.idx + 1]
    /\ pc' = "loop"
    /\ UNCHANGED <<level, clues, is_solved, rng, result, failed, solution,
                   constructed, lastOp, written, onPath, player, appVars, fnVars>>

\* The player's plan, fixed when the puzzle is constructed: the MaxOpen last
\* blank cells are edited freely, the other blank cells are filled with their
\* solution digit, and the first clue cell is the clue cell the player tries
\* to overwrite or clear.
PlayerPlan(g) ==
    LET blank == {i \in 0 .. SIZE * SIZE - 1 :
                     ~g[CellAt(i)[1]][CellAt(i)[2]].is_clue}
        clue == (0 .. SIZE * SIZE - 1) \ blank
        open == {i \in blank : Cardinality({j \in blank : j > i}) < MaxOpen}
        scripted == blank \ open
        target == IF clue = {} THEN {} ELSE {Min(clue)}
    IN [open |-> {CellAt(i) : i \in open},
        scripted |-> {CellAt(i) : i \in scripted},
        clue |-> {CellAt(i) : i \in target}]

\* mutant: the slice of positions is one short
Blanked_OffByOne(g, positions, n) ==
    [r \in Idx |-> [c \in Idx |->
        IF \E k \in 1 .. n - 1 : positions[k] = <<r, c>>
        THEN Cell(0, FALSE)
        ELSE g[r][c]]]

\* mutant: only the value is reset, the clue flag stays
Blanked_KeepsClueFlag(g, positions, n) ==
    [r \in Idx |-> [c \in Idx |->
        IF \E k \in 1 .. n : positions[k] = <<r, c>>
        THEN [g[r][c] EXCEPT !.value = 0]
        ELSE g[r][c]]]

\* the grid with the cells at positions[1 .. n] replaced by Cell::new(0, false)
Blanked(g, positions, n) ==
    [r \in Idx |-> [c \in Idx |->
        IF \E k \in 1 .. n : positions[k] = <<r, c>>
        THEN Cell(0, FALSE)
        ELSE g[r][c]]]

\* generate_full_solution has returned (its result is ignored); remove_numbers
\* runs and Puzzle::new returns
RemoveNumbers ==
    /\ pc = "ret"
    /\ stack = <<>>
    /\ LET sh == shuffle([k \in 1 .. SIZE * SIZE |-> CellAt(k - 1)], rng)
           cells_to_remove == SIZE * SIZE - clues
           g2 == Blanked(grid, sh.seq, cells_to_remove)
       IN /\ grid' = g2
          /\ constructed' = g2
          /\ player' = PlayerPlan(g2)
          /\ rng' = sh.rng
    /\ solution' = [r \in Idx |-> [c \in Idx |-> grid[r][c].value]]
    /\ pc' = "play"
    /\ lastOp' = [name |-> "new", target |-> "none", solved |-> FALSE]
    /\ onPath' = TRUE
    /\ UNCHANGED <<level, clues, is_solved, stack, result, failed, written,
                   appVars, fnVars>>

----------------------------------------------------------------------------
(* impl FromStr for Difficulty *)

\* A token is a sequence of characters; a character is written as a string:
\* the ASCII letters and signs as themselves, the others by their code point.
\* char::to_lowercase of the upper-case ASCII letters that matter here
AsciiLower ==
    [A |-> "a", D |-> "d", E |-> "e", H |-> "h", I |-> "i", M |-> "m",
     P |-> "p", R |-> "r", S |-> "s", T |-> "t", U |-> "u", X |-> "x",
     Y |-> "y"]

\* char::to_lowercase: one character may become several (U+0130, the dotted
\* capital I, becomes i followed by the combining dot U+0307); a character
\* without a lower-case mapping (a lower-case letter, the long s U+017F, a
\* digit, a space) stays as it is
char_to_lowercase(c) ==
    IF c \in DOMAIN AsciiLower THEN <<AsciiLower[c]>>
    ELSE IF c = "U+0130" THEN <<"i", "U+0307">>
    ELSE <<c>>

\* str::to_lowercase
RECURSIVE to_lowercase(_)
to_lowercase(s) ==
    IF s = <<>> THEN <<>>
    ELSE char_to_lowercase(Head(s)) \o to_lowercase(Tail(s))

Ok(v) == [ok |-> TRUE, value |-> v]
Err(e) == [ok |-> FALSE, error |-> e]

\* mutant: the token is matched as written
from_str_CaseSensitive(s) ==
    CASE s = <<"e", "a", "s", "y">> -> Ok("Easy")
      [] s = <<"m", "e", "d", "i", "u", "m">> -> Ok("Medium")
      [] s = <<"h", "a", "r", "d">> -> Ok("Hard")
      [] s = <<"e", "x", "p", "e", "r", "t">> -> Ok("Expert")
      [] OTHER -> Err(<<"Invalid difficulty: ", s>>)

from_str(s) ==
    LET l == to_lowercase(s)
    IN CASE l = <<"e", "a", "s", "y">> -> Ok("Easy")
         [] l = <<"m", "e", "d", "i", "u", "m">> -> Ok("Medium")
         [] l = <<"h", "a", "r", "d">> -> Ok("Hard")
         [] l = <<"e", "x", "p", "e", "r", "t">> -> Ok("Expert")
         [] OTHER -> Err(<<"Invalid difficulty: ", s>>)

\* The tokens from_str is tried on: the four names, near misses of them, and
\* every spelling of each that replaces letters by their upper-case form or
\* by a character that looks alike.
Words ==
    {<<"e", "a", "s", "y">>,
     <<"m", "e", "d", "i", "u", "m">>,
     <<"h", "a", "r", "d">>,
     <<"e", "x", "p", "e", "r", "t">>,
     <<>>,
     <<"e", "a", "s">>,
     <<"e", "a", "s", "y", "y">>,
     <<" ", "e", "a", "s", "y">>,
     <<"h", "a", "r", "t">>,
     <<"h", "a", "r", "d", " ">>,
     <<"e", "x", "p", "e", "r", "t", "1">>,
     <<"m", "e", "d", "i", "m">>}

Spellings(c) ==
    {c}
    \cup {u \in DOMAIN AsciiLower : AsciiLower[u] = c}
    \cup (IF c = "i" THEN {"U+0130"} ELSE {})
    \cup (IF c = "s" THEN {"U+017F"} ELSE {})

RECURSIVE Variants(_)
Variants(w) ==
    IF w = <<>> THEN {<<>>}
    ELSE {<<c>> \o rest : c \in Spellings(Head(w)), rest \in Variants(Tail(w))}

ParseInputs == UNION {Variants(w) : w \in Words}

\* no puzzle exists while the command line is parsed
NoPuzzle ==
    /\ grid = [r \in Idx |-> [c \in Idx |-> Cell(0, TRUE)]]
    /\ level = "unset"
    /\ clues = 0
    /\ is_solved = FALSE
    /\ rng = 0
    /\ stack = <<>>
    /\ result = FALSE
    /\ failed = NoCall
    /\ solution = [r \in Idx |-> [c \in Idx |-> 0]]
    /\ constructed = [r \in Idx |-> [c \in Idx |-> Cell(0, TRUE)]]
    /\ lastOp = [name |-> "none", target |-> "none", solved |-> FALSE]
    /\ written = {}
    /\ onPath = FALSE
    /\ player = [open |-> {}, scripted |-> {}, clue |-> {}]

InitParse ==
    /\ pc = "parse"
    /\ text \in ParseInputs
    /\ parsed = NoCall
    /\ applied = NoCall
    /\ NoPuzzle
    /\ AppInit

\* the command line's difficulty argument is parsed
FromStr ==
    /\ pc = "parse"
    /\ parsed = NoCall
    /\ parsed' = from_str(text)
    /\ pc' = "parsed"
    /\ UNCHANGED <<level, grid, clues, is_solved, rng, stack, result, failed,
                   solution, constructed, lastOp, written, onPath, player,
                   appVars, text, applied>>

NextParse == FromStr

SpecParse == InitParse /\ [][NextParse]_vars

----------------------------------------------------------------------------
(* The calls of the player *)

\* The player first fills the scripted cells, taking the first or the last
\* empty one each time, then edits the open cells, pokes the clue cell and
\* resets as they please.
\* the history record of a call of insert_number or clear_cell on `cell`
Called(name, cell) ==
    [name |-> name,
     target |-> IF cell.is_clue THEN "clue"
                ELSE IF cell.value = 0 THEN "empty" ELSE "filled",
     solved |-> is_solved]

ScriptedEmpty ==
    {CellIndex(at[1], at[2]) :
        at \in {x \in player.scripted : grid[x[1]][x[2]].value = 0}}

InsertInputs ==
    IF ScriptedEmpty # {}
    THEN {<<CellAt(i)[1], CellAt(i)[2], solution[CellAt(i)[1]][CellAt(i)[2]]>> :
             i \in {Min(ScriptedEmpty), Max(ScriptedEmpty)}}
    ELSE {<<at[1], at[2], n>> : at \in player.clue \cup player.open,
                                n \in KeyDigits}

ClearInputs ==
    IF ScriptedEmpty # {} THEN {} ELSE player.clue \cup player.open

\* mutant: a filled cell is overwritten
InsertNumberGrid_Overwrite(g, row, col, num) ==
    IF g[row][col].is_clue THEN g
    ELSE [g EXCEPT ![row][col] =
            [value |-> num,
             is_clue |-> @.is_clue,
             possible_wrong |->
                 IF ~is_safe(g, row, col, num) THEN TRUE ELSE @.possible_wrong]]

\* Puzzle::insert_number: the puzzle state it leaves
InsertNumberGrid(g, row, col, num) ==
    IF g[row][col].is_clue THEN g
    ELSE IF g[row][col].value = 0
    THEN [g EXCEPT ![row][col] =
            [value |-> num,
             is_clue |-> @.is_clue,
             possible_wrong |->
                 IF ~is_safe(g, row, col, num) THEN TRUE ELSE @.possible_wrong]]
    ELSE g

InsertNumberSolved(g, solved, row, col, num) ==
    IF g[row][col].is_clue THEN solved
    ELSE IF g[row][col].value = 0
    THEN check_if_solved(InsertNumberGrid(g, row, col, num))
    ELSE solved

InsertNumber(row, col, num) ==
    /\ pc = "play"
    /\ lastOp' = Called("insert", grid[row][col])
    /\ grid' = InsertNumberGrid(grid, row, col, num)
    /\ is_solved' = InsertNumberSolved(grid, is_solved, row, col, num)
    /\ written' = IF /\ ~grid[row][col].is_clue
                     /\ grid[row][col].value = 0
                     /\ num \in 1 .. 9
                  THEN written \cup {<<row, col>>}
                  ELSE written
    /\ onPath' = (/\ onPath
                  /\ ~grid[row][col].is_clue
                  /\ grid[row][col].value = 0
                  /\ num = solution[row][col])
    /\ UNCHANGED <<level, clues, rng, pc, stack, result, failed, solution,
                   constructed, player, fnVars>>

\* mutant: the clue guard is missing
ClearCellGrid_NoClueGuard(g, row, col) ==
    [g EXCEPT ![row][col].value = 0, ![row][col].possible_wrong = FALSE]

\* mutant: the solved flag is left alone
ClearCellSolved_Keeps(g, solved, row, col) == solved

\* Puzzle::clear_cell
ClearCellGrid(g, row, col) ==
    IF g[row][col].is_clue THEN g
    ELSE [g EXCEPT ![row][col].value = 0, ![row][col].possible_wrong = FALSE]

\* mutant: the solved flag is recomputed from the validator alone
ClearCellSolved_Revalidated(g, solved, row, col) ==
    IF g[row][col].is_clue THEN solved
    ELSE validate_sudoku(ClearCellGrid(g, row, col))

ClearCellSolved(g, solved, row, col) ==
    IF g[row][col].is_clue THEN solved ELSE FALSE

ClearCell(row, col) ==
    /\ pc = "play"
    /\ lastOp' = Called("clear", grid[row][col])
    /\ grid' = ClearCellGrid(grid, row, col)
    /\ is_solved' = ClearCellSolved(grid, is_solved, row, col)
    /\ written' = IF grid[row][col].is_clue THEN written
                  ELSE written \ {<<row, col>>}
    /\ onPath' = FALSE
    /\ UNCHANGED <<level, clues, rng, pc, stack, result, failed, solution,
                   constructed, player, fnVars>>

\* mutant: the clue test is inverted
ResetGrid_Inverted(g) ==
    [r \in Idx |-> [c \in Idx |->
        IF g[r][c].is_clue THEN [g[r][c] EXCEPT !.value = 0] ELSE g[r][c]]]

\* mutant: every cell is blanked
ResetGrid_All(g) ==
    [r \in Idx |-> [c \in Idx |-> [g[r][c] EXCEPT !.value = 0]]]

\* Puzzle::reset
ResetGrid(g) ==
    [r \in Idx |-> [c \in Idx |->
        IF ~g[r][c].is_clue THEN [g[r][c] EXCEPT !.value = 0] ELSE g[r][c]]]

Reset ==
    /\ pc = "play"
    /\ grid' = ResetGrid(grid)
    /\ lastOp' = [name |-> "reset", target |-> "none", solved |-> is_solved]
    /\ onPath' = FALSE
    /\ UNCHANGED <<level, clues, is_solved, rng, pc, stack, result, failed,
                   solution, constructed, written, player, fnVars>>

\* the calls of the player, as the engine sees them (the state of the
\* interactive layer plays no part)
Insert ==
    /\ \E inp \in InsertInputs : InsertNumber(inp[1], inp[2], inp[3])
    /\ UNCHANGED appVars

Clear ==
    /\ \E at \in ClearInputs : ClearCell(at[1], at[2])
    /\ UNCHANGED appVars

ResetCall ==
    /\ ScriptedEmpty = {}
    /\ Reset
    /\ UNCHANGED appVars

Next ==
    \/ FillGridCall
    \/ FillGridLoop
    \/ FillGridPropagate
    \/ FillGridUndo
    \/ RemoveNumbers
    \/ Insert
    \/ Clear
    \/ ResetCall

Spec == Init /\ [][Next]_vars

\* Puzzle::new on its own, over more seeds of the random source (the
\* generator does not read the difficulty, which is fixed here).
InitGen ==
    /\ grid = [r \in Idx |-> [c \in Idx |-> Cell(0, TRUE)]]
    /\ level = "Medium"
    /\ clues = DifficultyClues(level)
    /\ is_solved = FALSE
    /\ rng \in 0 .. MaxGenSeed
    /\ pc = "call"
    /\ stack = <<>>
    /\ result = FALSE
    /\ failed = NoCall
    /\ solution = [r \in Idx |-> [c \in Idx |-> 0]]
    /\ constructed = [r \in Idx |-> [c \in Idx |-> Cell(0, TRUE)]]
    /\ lastOp = [name |-> "none", target |-> "none", solved |-> FALSE]
    /\ written = {}
    /\ onPath = FALSE
    /\ player = [open |-> {}, scripted |-> {}, clue |-> {}]
    /\ AppInit
    /\ FnInit

NextGen ==
    \/ FillGridCall
    \/ FillGridLoop
    \/ FillGridPropagate
    \/ FillGridUndo
    \/ RemoveNumbers

\* a step of fill_grid
FillGridStep ==
    \/ FillGridCall
    \/ FillGridLoop
    \/ FillGridPropagate
    \/ FillGridUndo

\* The code is sequential: as long as fill_grid has a step to take, it takes it.
SpecGen == InitGen /\ [][NextGen]_vars /\ WF_vars(FillGridStep)

----------------------------------------------------------------------------
(* The constraint checker on its own: validate_sudoku and is_safe applied to *)
(* grids that need not come from a puzzle                                   *)

\* the base grids: the empty grid and a full, rule-consistent grid
EmptyGrid == [r \in Idx |-> [c \in Idx |-> Cell(0, FALSE)]]

FullGrid ==
    [r \in Idx |-> [c \in Idx |->
        Cell(((r * SUBGRID_SIZE + (r \div SUBGRID_SIZE) + c) % SIZE) + 1, FALSE)]]

\* the cells that are overwritten: two in one row only, two in one column
\* only, two in one subgrid only, and the far corner
ProbeCells == {<<0, 0>>, <<0, 4>>, <<4, 0>>, <<1, 1>>, <<8, 8>>}

\* the values of a cell (u8 values 0 .. 9)
CellValues == 0 .. 9

\* g with the cells in the domain of f holding the values f gives
Overwrite(g, f) ==
    [r \in Idx |-> [c \in Idx |->
        IF <<r, c>> \in DOMAIN f
        THEN [g[r][c] EXCEPT !.value = f[<<r, c>>]]
        ELSE g[r][c]]]

GridInputs ==
    {Overwrite(base, f) :
        base \in {EmptyGrid, FullGrid},
        f \in UNION {[S -> CellValues] :
                        S \in {T \in SUBSET ProbeCells : Cardinality(T) <= MaxEdits}}}

\* the arguments is_safe is applied to
SafeArgs == ProbeCells \X CellValues

InitGrid ==
    /\ pc = "pure"
    /\ grid \in GridInputs
    /\ level = "unset"
    /\ clues = 0
    /\ is_solved = FALSE
    /\ rng = 0
    /\ stack = <<>>
    /\ result = FALSE
    /\ failed = NoCall
    /\ solution = [r \in Idx |-> [c \in Idx |-> 0]]
    /\ constructed = [r \in Idx |-> [c \in Idx |-> Cell(0, TRUE)]]
    /\ lastOp = [name |-> "none", target |-> "none", solved |-> FALSE]
    /\ written = {}
    /\ onPath = FALSE
    /\ player = [open |-> {}, scripted |-> {}, clue |-> {}]
    /\ AppInit
    /\ FnInit

EngineUnchanged ==
    UNCHANGED <<level, grid, clues, is_solved, rng, pc, stack, result, failed,
                solution, constructed, lastOp, written, onPath, player,
                appVars, text, parsed>>

\* validate_sudoku is applied to the grid
ApplyValidate ==
    /\ pc = "pure"
    /\ applied = NoCall
    /\ applied' = [name |-> "validate_sudoku", value |-> validate_sudoku(grid)]
    /\ EngineUnchanged

\* is_safe is applied to the grid, for each cell and digit of SafeArgs
ApplyIsSafe ==
    /\ pc = "pure"
    /\ applied = NoCall
    /\ applied' = [name |-> "is_safe",
                   value |-> [a \in SafeArgs |-> is_safe(grid, a[1][1], a[1][2], a[2])]]
    /\ EngineUnchanged

\* the empty cells and the digits 1..9 among the arguments
PlacementArgs(g) ==
    {x \in SafeArgs : g[x[1][1]][x[1][2]].value = 0 /\ x[2] \in 1 .. 9}

\* on a grid that validate_sudoku accepts: is_safe for a digit 1..9 and an
\* empty cell, and validate_sudoku on the grid with the digit written there
ApplyPlacement ==
    /\ pc = "pure"
    /\ applied = NoCall
    /\ validate_sudoku(grid) = TRUE
    /\ applied' =
          [name |-> "placement",
           safe |-> [a \in PlacementArgs(grid) |->
               is_safe(grid, a[1][1], a[1][2], a[2])],
           valid |-> [a \in PlacementArgs(grid) |->
               validate_sudoku(SetValue(grid, a[1][1], a[1][2], a[2]))]]
    /\ EngineUnchanged

NextGrid ==
    \/ ApplyValidate
    \/ ApplyIsSafe
    \/ ApplyPlacement

SpecGrid == InitGrid /\ [][NextGrid]_vars

----------------------------------------------------------------------------
(* App::handle_key_event *)

\* The characters of the key events, by code point: the digits '0', '1' and
\* '9', the superscript two U+00B2, the Arabic-Indic digit one U+0661, the
\* Hangzhou numeral one U+3021, and the letter 'x'.
KeyChars == {48, 49, 57, 178, 1633, 12321, 120}

\* char::is_numeric, on the characters above and on the digits '0' .. '9'
is_numeric(c) == c \in (48 .. 57) \cup {178, 1633, 12321}

\* `c as u8 - b'0'`: the cast keeps the low byte; a low byte below b'0' makes
\* the subtraction overflow, which panics in a build with overflow checks and
\* wraps in a build without
KeyNumbers(c) ==
    LET b == c % 256
    IN IF b >= 48 THEN {[panic |-> FALSE, num |-> b - 48]}
       ELSE {[panic |-> TRUE, num |-> 0],
             [panic |-> FALSE, num |-> (b - 48 + 256) % 256]}

\* The user's solving plan: walk the board row by row, the even rows to the
\* right and the odd rows to the left, and type the solution digit into
\* every blank cell on the way.  The plan is followed until the time of the
\* first solve is recorded.
OnScript ==
    /\ script.on
    /\ ~is_solved
    /\ time_to_solve = 0

\* the key the plan asks for: its KeyCode and, for KeyCode::Char, the character
ScriptKey ==
    IF ~grid[selected_row][selected_col].is_clue
          /\ grid[selected_row][selected_col].value = 0
    THEN [code |-> "Char", c |-> 48 + solution[selected_row][selected_col]]
    ELSE IF selected_row % 2 = 0
         THEN [code |-> IF selected_col < SIZE - 1 THEN "Right" ELSE "Down",
               c |-> 0]
         ELSE [code |-> IF selected_col > 0 THEN "Left" ELSE "Down", c |-> 0]

\* the user presses a key with this KeyCode
Offered(code) == OnScript => ScriptKey.code = code

\* the characters the user types
TypedChars ==
    IF OnScript
    THEN IF ScriptKey.code = "Char" THEN {ScriptKey.c} ELSE {}
    ELSE KeyChars

\* a key event can be handled
Handling ==
    /\ pc = "play"
    /\ ~exit
    /\ OnScript \/ keys - script.keys < MaxKeys

Handled ==
    /\ keys' = keys + 1
    /\ script' = IF OnScript THEN [script EXCEPT !.keys = @ + 1] ELSE script
    /\ UNCHANGED exit

PuzzleUnchanged ==
    UNCHANGED <<level, grid, clues, is_solved, rng, pc, stack, result, failed,
                solution, constructed, lastOp, written, onPath, player, fnVars>>

\* 'q'
KeyQuit ==
    /\ Handling
    /\ Offered("Quit")
    /\ exit' = TRUE
    /\ keys' = keys + 1
    /\ UNCHANGED script
    /\ PuzzleUnchanged
    /\ UNCHANGED <<selected_row, selected_col, timer, time_to_solve, issued>>

\* 'N' | 'n': new_game; Puzzle::new starts over on a fresh puzzle and the
\* timer is restarted
KeyNewGame ==
    /\ Handling
    /\ Offered("NewGame")
    /\ Handled
    /\ grid' = [r \in Idx |-> [c \in Idx |-> Cell(0, TRUE)]]
    /\ clues' = DifficultyClues(level)
    /\ is_solved' = FALSE
    /\ pc' = "call"
    /\ stack' = <<>>
    /\ result' = FALSE
    /\ failed' = NoCall
    /\ solution' = [r \in Idx |-> [c \in Idx |-> 0]]
    /\ constructed' = [r \in Idx |-> [c \in Idx |-> Cell(0, TRUE)]]
    /\ lastOp' = [name |-> "none", target |-> "none", solved |-> FALSE]
    /\ written' = {}
    /\ onPath' = FALSE
    /\ player' = [open |-> {}, scripted |-> {}, clue |-> {}]
    /\ timer' = keys'
    /\ UNCHANGED <<level, rng, selected_row, selected_col, time_to_solve,
                   issued, fnVars>>

\* 'R' | 'r'
KeyReset ==
    /\ Handling
    /\ Offered("Reset")
    /\ Handled
    /\ Reset
    /\ UNCHANGED <<selected_row, selected_col, timer, time_to_solve, issued>>

\* Left: saturating_sub(1)
KeyLeft ==
    /\ Handling
    /\ Offered("Left")
    /\ Handled
    /\ selected_col' = IF selected_col = 0 THEN 0 ELSE selected_col - 1
    /\ PuzzleUnchanged
    /\ UNCHANGED <<selected_row, timer, time_to_solve, issued>>

\* Right: saturating_add(1).min(8)
KeyRight ==
    /\ Handling
    /\ Offered("Right")
    /\ Handled
    /\ selected_col' = IF selected_col + 1 < 8 THEN selected_col + 1 ELSE 8
    /\ PuzzleUnchanged
    /\ UNCHANGED <<selected_row, timer, time_to_solve, issued>>

\* Up: saturating_sub(1)
KeyUp ==
    /\ Handling
    /\ Offered("Up")
    /\ Handled
    /\ selected_row' = IF selected_row = 0 THEN 0 ELSE selected_row - 1
    /\ PuzzleUnchanged
    /\ UNCHANGED <<selected_col, timer, time_to_solve, issued>>

\* Down: saturating_add(1).min(8)
KeyDown ==
    /\ Handling
    /\ Offered("Down")
    /\ Handled
    /\ selected_row' = IF selected_row + 1 < 8 THEN selected_row + 1 ELSE 8
    /\ PuzzleUnchanged
    /\ UNCHANGED <<selected_col, timer, time_to_solve, issued>>

\* Char(c) if c.is_numeric(): insert_number at the selection, then the time
\* is recorded if the puzzle is solved
KeyDigit ==
    /\ Handling
    /\ Handled
    /\ \E c \in TypedChars :
          /\ is_numeric(c)
          /\ \E o \in KeyNumbers(c) :
                IF o.panic
                THEN /\ pc' = "panic"
                     /\ UNCHANGED <<level, grid, clues, is_solved, rng, stack,
                                    result, failed, solution, constructed,
                                    lastOp, written, onPath, player, fnVars,
                                    time_to_solve, issued>>
                ELSE /\ InsertNumber(selected_row, selected_col, o.num)
                     /\ issued' = [name |-> "insert_number",
                                   row |-> selected_row, col |-> selected_col,
                                   num |-> o.num]
                     /\ time_to_solve' = IF is_solved' THEN keys' - timer
                                         ELSE time_to_solve
    /\ UNCHANGED <<selected_row, selected_col, timer>>

\* Backspace | Delete
KeyClear ==
    /\ Handling
    /\ Offered("Clear")
    /\ Handled
    /\ ClearCell(selected_row, selected_col)
    /\ UNCHANGED <<selected_row, selected_col, timer, time_to_solve, issued>>

\* any other key
KeyOther ==
    /\ Handling
    /\ Offered("Other")
    /\ Handled
    /\ \E c \in KeyChars : ~is_numeric(c)
    /\ PuzzleUnchanged
    /\ UNCHANGED <<selected_row, selected_col, timer, time_to_solve, issued>>

NextApp ==
    \/ FillGridCall
    \/ FillGridLoop
    \/ FillGridPropagate
    \/ FillGridUndo
    \/ RemoveNumbers
    \/ KeyQuit
    \/ KeyNewGame
    \/ KeyReset
    \/ KeyLeft
    \/ KeyRight
    \/ KeyUp
    \/ KeyDown
    \/ KeyDigit
    \/ KeyClear
    \/ KeyOther

\* App::new followed by the key events App::run hands to handle_key_event
SpecApp == Init /\ [][NextApp]_vars

\* App::new on the Easy level, and a user who first solves the puzzle by the
\* plan and then presses MaxKeys keys more
InitSolve ==
    /\ grid = [r \in Idx |-> [c \in Idx |-> Cell(0, TRUE)]]
    /\ level = "Easy"
    /\ clues = DifficultyClues(level)
    /\ is_solved = FALSE
    /\ rng \in 0 .. MaxSeed
    /\ pc = "call"
    /\ stack = <<>>
    /\ result = FALSE
    /\ failed = NoCall
    /\ solution = [r \in Idx |-> [c \in Idx |-> 0]]
    /\ constructed = [r \in Idx |-> [c \in Idx |-> Cell(0, TRUE)]]
    /\ lastOp = [name |-> "none", target |-> "none", solved |-> FALSE]
    /\ written = {}
    /\ onPath = FALSE
    /\ player = [open |-> {}, scripted |-> {}, clue |-> {}]
    /\ AppFields
    /\ script = [on |-> TRUE, keys |-> 0]
    /\ FnInit

SpecSolve == InitSolve /\ [][NextApp]_vars

----------------------------------------------------------------------------
(* Claims *)

Playing == pc = "play"

NonZeroCells(g) == {at \in Positions : g[at[1]][at[2]].value # 0}
ZeroCells(g) == {at \in Positions : g[at[1]][at[2]].value = 0}

SameUnit(a, b) ==
    \/ a[1] = b[1]
    \/ a[2] = b[2]
    \/ /\ a[1] \div 3 = b[1] \div 3
       /\ a[2] \div 3 = b[2] \div 3

\* no row, column or 3x3 subgrid holds a non-zero digit twice
NoDuplicates(g) ==
    \A a \in Positions : \A b \in Positions :
        (a # b /\ SameUnit(a, b) /\ g[a[1]][a[2]].value # 0)
            => g[a[1]][a[2]].value # g[b[1]][b[2]].value

\* C1 (as claimed): after reset(), in any state reachable by new, insert,
\* clear and reset, is_solved() is false.
C1_ResetLeavesUnsolved ==
    (Playing /\ lastOp.name = "reset") => ~is_solved

\* C2: as long as every call since new has inserted, into an empty cell, the
\* digit that cell held in the full solution, is_solved() is true exactly when
\* no empty cell is left (false after every insert but the last, true after
\* the last), and validate() is true once it is solved.
C2_SolvedAtLastCorrectInsert ==
    (Playing /\ onPath) =>
        /\ is_solved = (ZeroCells(grid) = {})
        /\ is_solved => validate

C2_Witness ==
    Playing /\ onPath /\ lastOp.name = "insert" /\ is_solved /\ validate

\* C3: an insert or clear whose target cell is a clue leaves every cell (value,
\* clue flag, possible_wrong) and the solved flag unchanged.
C3_ClueCallsChangeNothing ==
    [][(Playing /\ lastOp'.name \in {"insert", "clear"} /\ lastOp'.target = "clue")
          => (grid' = grid /\ is_solved' = is_solved /\ clues' = clues)]_vars

C3_Witness ==
    Playing /\ lastOp.name = "insert" /\ lastOp.target = "clue"

\* C4: in every state reached from new by insert, clear and reset, the cells
\* with is_clue true are those of the constructed puzzle and each holds the
\* same non-zero value as in the constructed puzzle.
C4_CluesAreImmutable ==
    Playing =>
        \A at \in Positions :
            LET now == grid[at[1]][at[2]]
                then == constructed[at[1]][at[2]]
            IN /\ now.is_clue = then.is_clue
               /\ now.is_clue => (now.value = then.value /\ now.value # 0)

C4_Witness ==
    /\ Playing
    /\ lastOp.name = "clear"
    /\ lastOp.target = "clue"
    /\ written # {}
    /\ \E at \in Positions : grid[at[1]][at[2]].is_clue

\* C5 (as claimed): insert on an empty non-clue cell writes the digit; a
\* further insert on a cell that insert wrote a digit (1..9, the digits of the
\* engine's interface) to changes nothing as long as no clear of that cell has
\* happened in between.
C5_NoChangeUntilClear ==
    [][\A inp \in InsertInputs :
          (InsertNumber(inp[1], inp[2], inp[3]) /\ ~grid[inp[1]][inp[2]].is_clue)
          => /\ grid[inp[1]][inp[2]].value = 0
                   => grid'[inp[1]][inp[2]].value = inp[3]
             /\ <<inp[1], inp[2]>> \in written
                   => (grid' = grid /\ is_solved' = is_solved)]_vars

\* C5 (amended): insert on an empty non-clue cell writes the digit; an insert
\* on a non-clue cell that holds a non-zero value changes nothing; and a
\* non-clue cell that holds a non-zero value keeps it until a clear or a reset.
C5_SingleFill ==
    [][/\ \A inp \in InsertInputs :
            (InsertNumber(inp[1], inp[2], inp[3]) /\ ~grid[inp[1]][inp[2]].is_clue)
            => IF grid[inp[1]][inp[2]].value = 0
               THEN grid'[inp[1]][inp[2]].value = inp[3]
               ELSE grid' = grid /\ is_solved' = is_solved
       /\ \A at \in Positions :
            (/\ Playing
             /\ grid[at[1]][at[2]].value # 0
             /\ grid'[at[1]][at[2]].value # grid[at[1]][at[2]].value)
            => lastOp'.name \in {"clear", "reset"}]_vars

C5_Witness ==
    Playing /\ lastOp.name = "insert" /\ lastOp.target = "filled"

\* C6: clear on a non-clue cell leaves that cell with value 0 and
\* possible_wrong false, every other cell unchanged and is_solved() false.
C6_ClearBlanksOneCell ==
    [][\A at \in ClearInputs :
          (ClearCell(at[1], at[2]) /\ ~grid[at[1]][at[2]].is_clue)
          => /\ grid'[at[1]][at[2]].value = 0
             /\ ~grid'[at[1]][at[2]].possible_wrong
             /\ grid'[at[1]][at[2]].is_clue = grid[at[1]][at[2]].is_clue
             /\ \A o \in Positions \ {at} : grid'[o[1]][o[2]] = grid[o[1]][o[2]]
             /\ ~is_solved']_vars

C6_Witness ==
    /\ Playing
    /\ lastOp.name = "clear"
    /\ lastOp.target = "filled"
    /\ lastOp.solved
    /\ ~is_solved

\* C7: reset leaves every clue cell as it was (value, clue flag,
\* possible_wrong) and every non-clue cell with value 0.
C7_ResetBlanksNonClues ==
    [][(Playing /\ lastOp'.name = "reset")
          => \A at \in Positions :
                IF grid[at[1]][at[2]].is_clue
                THEN grid'[at[1]][at[2]] = grid[at[1]][at[2]]
                ELSE grid'[at[1]][at[2]].value = 0]_vars

C7_Witness ==
    /\ Playing
    /\ lastOp.name = "reset"
    /\ \E at \in Positions : grid[at[1]][at[2]].possible_wrong
    /\ \E at \in Positions : grid[at[1]][at[2]].is_clue

\* C8: immediately after Puzzle::new, validate() is true: no row, column or
\* 3x3 subgrid holds a non-zero digit twice.
C8_ValidAfterNew ==
    (Playing /\ lastOp.name = "new") => (validate /\ NoDuplicates(grid))

C8_Witness ==
    Playing /\ lastOp.name = "new" /\ level = "Medium" /\ NonZeroCells(grid) # {}

\* the clue counts the claim names
ClaimedClues(d) ==
    CASE d = "Easy" -> 36
      [] d = "Medium" -> 34
      [] d = "Hard" -> 32
      [] d = "Expert" -> 30

\* C9: Puzzle::new(d) returns a grid with exactly the clue count of d
\* (Easy 36, Medium 34, Hard 32, Expert 30) non-zero cells and 81 minus that
\* count cells of value 0.
C9_ClueCount ==
    (Playing /\ lastOp.name = "new") =>
        /\ Cardinality(NonZeroCells(grid)) = ClaimedClues(level)
        /\ Cardinality(ZeroCells(grid)) = 81 - ClaimedClues(level)

C9_Witness ==
    /\ Playing
    /\ lastOp.name = "new"
    /\ level = "Expert"
    /\ Cardinality(ZeroCells(grid)) = 51

\* C10: immediately after Puzzle::new, is_solved() is false, a cell is a clue
\* exactly when its value is non-zero, every clue holds the value of the full
\* generated solution, and every blanked cell has value 0 and is no clue.
C10_NewPuzzleShape ==
    (Playing /\ lastOp.name = "new") =>
        /\ ~is_solved
        /\ \A at \in Positions :
              LET cell == grid[at[1]][at[2]]
              IN /\ cell.is_clue = (cell.value # 0)
                 /\ cell.is_clue => cell.value = solution[at[1]][at[2]]
                 /\ cell.value = 0 => ~cell.is_clue
        /\ \A at \in Positions : solution[at[1]][at[2]] \in 1 .. 9

C10_Witness ==
    /\ Playing
    /\ lastOp.name = "new"
    /\ level = "Easy"
    /\ \E at \in Positions : grid[at[1]][at[2]].is_clue
    /\ \E at \in Positions : ~grid[at[1]][at[2]].is_clue

\* the name of each variant, as the claim spells it
TokenOf(d) ==
    CASE d = "Easy" -> <<"e", "a", "s", "y">>
      [] d = "Medium" -> <<"m", "e", "d", "i", "u", "m">>
      [] d = "Hard" -> <<"h", "a", "r", "d">>
      [] d = "Expert" -> <<"e", "x", "p", "e", "r", "t">>

UpperCase ==
    [a |-> "A", d |-> "D", e |-> "E", h |-> "H", i |-> "I", m |-> "M",
     p |-> "P", r |-> "R", s |-> "S", t |-> "T", u |-> "U", x |-> "X",
     y |-> "Y"]

\* s is the token tok with each letter in lower or in upper case
IsCaseMix(s, tok) ==
    /\ Len(s) = Len(tok)
    /\ \A i \in 1 .. Len(tok) : s[i] \in {tok[i], UpperCase[tok[i]]}

\* C11: from_str returns Ok exactly for the tokens easy, medium, hard and
\* expert in any mix of upper and lower case, with the matching variant; every
\* other token yields an Err value that carries no difficulty.
C11_ParseDifficulty ==
    parsed # NoCall =>
        /\ \A d \in Difficulty : (parsed = Ok(d)) <=> IsCaseMix(text, TokenOf(d))
        /\ (\A d \in Difficulty : ~IsCaseMix(text, TokenOf(d)))
              => (~parsed.ok /\ DOMAIN parsed = {"ok", "error"})

C11_Witness ==
    /\ parsed = Ok("Medium")
    /\ text[1] = "M"
    /\ text[2] = "e"
    /\ text[4] = "I"

\* C12 (as claimed, in the states reached by a reset: the cell is one that
\* insert wrote a digit 1..9 to and that no clear but a reset has emptied):
\* whenever insert writes a digit d in 1..9 into an empty non-clue cell, that
\* cell's possible_wrong afterwards is true exactly when is_safe on the grid
\* before the write was false, and the possible_wrong of every other cell is
\* unchanged.
C12_FlagFromIsSafe ==
    [][\A inp \in InsertInputs :
          (/\ InsertNumber(inp[1], inp[2], inp[3])
           /\ ~grid[inp[1]][inp[2]].is_clue
           /\ grid[inp[1]][inp[2]].value = 0
           /\ <<inp[1], inp[2]>> \in written
           /\ inp[3] \in 1 .. 9)
          => /\ grid'[inp[1]][inp[2]].possible_wrong
                   = ~is_safe(grid, inp[1], inp[2], inp[3])
             /\ \A o \in Positions \ {<<inp[1], inp[2]>>} :
                   grid'[o[1]][o[2]].possible_wrong
                       = grid[o[1]][o[2]].possible_wrong]_vars

\* C13: is_solved() changes from false to true only in a step that is an
\* insert which writes into an empty non-clue cell, and only when after that
\* write every cell is non-zero and the validator passes; no clear, reset or
\* no-op insert makes it true.
C13_SolvedOnlyByInsert ==
    [][(Playing /\ ~is_solved /\ is_solved')
          => /\ lastOp'.name = "insert"
             /\ lastOp'.target = "empty"
             /\ grid' # grid
             /\ ZeroCells(grid') = {}
             /\ validate_sudoku(grid')
             /\ NoDuplicates(grid')]_vars

C13_Witness ==
    /\ Playing
    /\ lastOp.name = "insert"
    /\ lastOp.target = "empty"
    /\ ~lastOp.solved
    /\ is_solved
    /\ ~onPath

\* C19 (as claimed, for the cells insert wrote a digit 1..9 to and no clear
\* has emptied since): a cell's possible_wrong is set only if the cell is a
\* non-clue cell that holds a non-zero value.
C19_FlagOnlyOnFilled ==
    Playing =>
        \A at \in written :
            grid[at[1]][at[2]].possible_wrong
                => (~grid[at[1]][at[2]].is_clue /\ grid[at[1]][at[2]].value # 0)

\* generate_full_solution has returned to Puzzle::new
Generated == pc = "ret" /\ stack = <<>>

\* C14: started on the all-empty grid, fill_grid terminates, and it returns
\* true with every cell non-zero and no digit twice in a row, column or
\* subgrid; it never returns false from the empty grid.
C14_FillGridSucceeds ==
    /\ <>Generated
    /\ [](Generated =>
            /\ result = TRUE
            /\ ZeroCells(grid) = {}
            /\ \A at \in Positions : grid[at[1]][at[2]].value \in 1 .. 9
            /\ validate_sudoku(grid)
            /\ NoDuplicates(grid))

C14_Witness ==
    /\ Generated
    /\ result = TRUE
    /\ ZeroCells(grid) = {}
    /\ failed # NoCall

\* C15: whenever a call of fill_grid, at any depth, returns false, the grid
\* is the grid the call was entered with.
C15_FailureRestoresGrid ==
    (pc = "ret" /\ result = FALSE) => grid = failed.entry

C15_Witness ==
    /\ pc = "ret"
    /\ result = FALSE
    /\ stack # <<>>
    /\ failed.placed > 1
    /\ grid = failed.entry

\* C16 (as claimed): whatever keys are handled, the selected row and column
\* stay within 0..8 and every insert the app issues to the puzzle has
\* 0 <= row, col < 9 and 1 <= digit <= 9.
C16_AppCallsInContract ==
    /\ selected_row \in 0 .. 8
    /\ selected_col \in 0 .. 8
    /\ issued # NoCall =>
          /\ issued.row \in 0 .. 8
          /\ issued.col \in 0 .. 8
          /\ issued.num \in 1 .. 9

\* the cells that share a row, a column or a 3x3 subgrid with the cell at
UnitCells(at) == {p \in Positions : SameUnit(p, at)}

\* C17: validate_sudoku returns true exactly when no row, no column and none
\* of the nine 3x3 subgrids holds the same non-zero digit twice; zeros never
\* make it false.
C17_ValidateMeansNoDuplicates ==
    applied.name = "validate_sudoku" =>
        applied.value =
            (\A a \in NonZeroCells(grid) : \A b \in UnitCells(a) \ {a} :
                grid[a[1]][a[2]].value # grid[b[1]][b[2]].value)

C17_Witness ==
    /\ applied.name = "validate_sudoku"
    /\ ~applied.value
    /\ Cardinality(NonZeroCells(grid)) = 2
    /\ Cardinality(ZeroCells(grid)) = 79

\* C18: is_safe(grid, row, col, digit) is true exactly when the digit stands
\* in no cell of the row, the column and the 3x3 subgrid of (row, col), the
\* cell (row, col) itself included.
C18_IsSafeMeansAbsent ==
    applied.name = "is_safe" =>
        \A at \in ProbeCells :
            LET seen == {grid[p[1]][p[2]].value : p \in UnitCells(at)}
            IN \A d \in CellValues : applied.value[<<at, d>>] = (d \notin seen)

C18_Witness ==
    /\ applied.name = "is_safe"
    /\ grid[0][0].value = 5
    /\ ~applied.value[<<<<0, 0>>, 5>>]
    /\ applied.value[<<<<1, 1>>, 4>>]
    /\ ~applied.value[<<<<1, 1>>, 5>>]

\* C20: on a grid that validate_sudoku accepts, for every empty cell and every
\* digit 1..9, is_safe is true exactly when the grid with the digit written
\* into the cell still passes validate_sudoku.
C20_SafeIffStillValid ==
    applied.name = "placement" =>
        \A a \in DOMAIN applied.safe : applied.safe[a] = applied.valid[a]

C20_Witness ==
    /\ applied.name = "placement"
    /\ \E a \in DOMAIN applied.safe : applied.safe[a] /\ applied.valid[a]
    /\ \E a \in DOMAIN applied.safe : ~applied.safe[a] /\ ~applied.valid[a]

\* C21 (as claimed): the recorded time_to_solve changes only at a key event
\* that takes the puzzle from not solved to solved, and it keeps its value
\* under every key event that finds the puzzle solved and leaves it solved.
\* Only key events whose insert, if any, carries a digit 1..9 are looked at.
C21_SolveTimeRecordedOnce ==
    [][(issued' # NoCall => issued'.num \in 1 .. 9) =>
          /\ time_to_solve' # time_to_solve => (~is_solved /\ is_solved')
          /\ (keys' # keys /\ is_solved /\ is_solved') =>
                time_to_solve' = time_to_solve]_vars

\* the plan has been played to its end: the puzzle is solved and the time of
\* the solve is recorded
C21_Solved ==
    /\ script.on
    /\ is_solved
    /\ time_to_solve > 0
    /\ keys = script.keys

============================================================================
